---- MODULE Spec2Model ----
(***************************************************************************)
(* ScriptTaste: a collage of anime posters whose areas encode the time a   *)
(* MyAnimeList user spent watching each show.                              *)
(*                                                                         *)
(*   src/src/url_utils.py  fetch_user_animes, fetch_images,                *)
(*                         fetch_anime_metadata (the on-disk cache)        *)
(*   src/src/collage.py    parse_duration, read_time_poster_data,          *)
(*                         normalize_posters,                              *)
(*                         resize_width_w_constant_aspect,                 *)
(*                         arrange_images, draw                            *)
(*   src/ScriptTaste.py    main                                            *)
(*                                                                         *)
(* Modelling conventions.                                                  *)
(*  - A PIL image is a record [id, size], size = <<width, height>> as in   *)
(*    PIL's img.size; its pixel at (row, col) is PosterPixel(id, row, col).*)
(*    The three RGB channels are handled identically by every line of the  *)
(*    code, so a pixel is one channel value.                               *)
(*  - The floating point values of normalize_posters are kept as exact     *)
(*    rationals <<num, den>>; sqrt is never taken, the SQUARE of the       *)
(*    value is kept instead, and int(sqrt(q)) is the largest n with        *)
(*    n*n <= q.  On every input of the bounded domains below (and on the   *)
(*    100x100 / 50x50 example) IEEE double arithmetic gives the same       *)
(*    integers and the same >= 1 decisions as the exact values.            *)
(*  - rpack.pack is a library outside the repository: it is modelled by    *)
(*    its contract, a placement of the rectangles at non-negative integer  *)
(*    positions, pairwise disjoint (see Pack).                             *)
(***************************************************************************)
EXTENDS Integers, Sequences, FiniteSets, TLC

VARIABLES
    \* ---- collage.py: draw ----
    user_animes,         \* list(dict): the user's anime list
    anime_cache,         \* data/anime/<mal_id>.json: "absent" | "partial" | "complete"
    img_cache,           \* data/images/<mal_id>.jpg: "absent" | "partial" | "complete"
    time_posters,        \* result of read_time_poster_data
    normalized_posters,  \* result of normalize_posters
    sizes,               \* arrange_images: sizes of the sorted posters
    positions,           \* arrange_images: rpack.pack(sizes)
    collage,             \* arrange_images: the canvas, [rows, cols, px]
    deadspace,           \* arrange_images: the mask, a set of <<row, col>>
    blur_factor,         \* CLI --blur_factor
    blur_radius,         \* CLI --blur_radius
    iter,                \* iterations of the diffusion loop done so far
    pc,                  \* position inside draw
    err,                 \* the exception that ended draw, or "none"
    \* ---- ScriptTaste.py: main, url_utils.py ----
    force,               \* CLI -f
    user_cache,          \* data/users/<username>.json exists
    fpc,                 \* position inside main
    idx,                 \* loop index of fetch_images / fetch_anime_metadata
    last_query,          \* the last query of this run: [kind, id, cached]
    retry                \* this run follows a run that a 429 ended

vars == <<user_animes, anime_cache, img_cache, time_posters, normalized_posters,
          sizes, positions, collage, deadspace, blur_factor, blur_radius, iter,
          pc, err, force, user_cache, fpc, idx, last_query, retry>>

drawVars == <<user_animes, time_posters, normalized_posters, sizes, positions,
              collage, deadspace, blur_factor, blur_radius, iter, pc, err>>

fetchVars == <<force, user_cache, fpc, idx, last_query, retry>>

cacheVars == <<anime_cache, img_cache>>

(***************************************************************************)
(* Bounds of the model.                                                    *)
(***************************************************************************)
MaxImgs == 2         \* posters handed to normalize_posters
MaxDim == 3          \* width and height of an original poster
MaxTime == 2         \* minutes invested in one show
MaxRects == 2        \* rectangles handed to arrange_images
MaxRect == 2         \* width and height of a normalized rectangle
MaxBlurFactor == 2   \* --blur_factor
MaxBlurRadius == 1   \* --blur_radius (the one radius tried)
MaxAnimes == 2       \* length of the user's anime list
MaxEpisodes == 1     \* watched_episodes of one show

(***************************************************************************)
(* Helpers.                                                                *)
(***************************************************************************)
Max(S) == CHOOSE x \in S : \A y \in S : y <= x

Range(s) == {s[i] : i \in 1..Len(s)}

RECURSIVE GCD(_, _)
GCD(a, b) == IF b = 0 THEN a ELSE GCD(b, a % b)

\* The rational n/d in lowest terms (d > 0, n >= 0).
Frac(n, d) == LET g == GCD(n, d) IN <<n \div g, d \div g>>

FracMul(p, q) == Frac(p[1] * q[1], p[2] * q[2])

\* p >= 1
FracGeqOne(p) == p[1] >= p[2]

RECURSIVE IntSqrtFrom(_, _)
IntSqrtFrom(p, n) ==
    IF (n + 1) * (n + 1) * p[2] <= p[1] THEN IntSqrtFrom(p, n + 1) ELSE n

\* Mutant of IntSqrt: rounds to the nearest integer instead of truncating.
IntSqrtRounded(p) == (IntSqrtFrom(<<4 * p[1], p[2]>>, 0) + 1) \div 2

\* int(sqrt(p)): truncation toward zero of the square root of the rational p.
IntSqrt(p) == IntSqrtFrom(p, 0)

Area(size) == size[1] * size[2]

(***************************************************************************)
(* collage.py: parse_duration.  A duration string is kept as what the two  *)
(* regular expressions "(\d+) hr" and "(\d+) min" find in it: <<>> for no  *)
(* match, <<n>> for the captured number.                                   *)
(***************************************************************************)
parse_duration(duration) ==
    (IF duration.hr # <<>> THEN 60 * duration.hr[1] ELSE 0)
  + (IF duration.min # <<>> THEN 1 * duration.min[1] ELSE 0)

(***************************************************************************)
(* collage.py: read_time_poster_data.  A show with no watched episode, no  *)
(* metadata file or no image file is skipped; nothing else is filtered.    *)
(***************************************************************************)
RECURSIVE read_time_poster_data(_, _, _)
read_time_poster_data(animes, metadata, images) ==
    IF animes = <<>> THEN <<>>
    ELSE LET anime == Head(animes)
             rest == read_time_poster_data(Tail(animes), metadata, images)
         IN  IF anime.watched_episodes = 0 THEN rest
             ELSE IF metadata[anime.mal_id] = "absent" THEN rest
             ELSE IF images[anime.mal_id] = "absent" THEN rest
             ELSE <<[time |-> parse_duration(anime.duration) * anime.watched_episodes,
                     id |-> anime.mal_id,
                     size |-> anime.size]>> \o rest

(***************************************************************************)
(* collage.py: resize_width_w_constant_aspect.                             *)
(*   width  = np.sqrt(ratio) * img.size[0]                                 *)
(*   height = width * img.size[0] / img.size[1]                            *)
(* The squares of both are kept.  img.size[0] is PIL's width, size[1] its  *)
(* height.                                                                 *)
(***************************************************************************)
WidthSq(ratio, img) == FracMul(ratio, Frac(img.size[1] * img.size[1], 1))

HeightSq(ratio, img) ==
    LET a == Frac(img.size[1], img.size[2])
    IN  FracMul(FracMul(WidthSq(ratio, img), a), a)

\* Mutant of KeepsPoster: "or" for "and".
KeepsPosterEither(ratio, img) ==
    FracGeqOne(HeightSq(ratio, img)) \/ FracGeqOne(WidthSq(ratio, img))

\* The guard "height >= 1 and width >= 1".
KeepsPoster(ratio, img) ==
    FracGeqOne(HeightSq(ratio, img)) /\ FracGeqOne(WidthSq(ratio, img))

\* Mutant of ResizedSize: img.resize(map(int, (width, height))).
ResizedSizeUnswapped(ratio, img) ==
    <<IntSqrt(WidthSq(ratio, img)), IntSqrt(HeightSq(ratio, img))>>

\* img.resize(map(int, (height, width))): PIL takes (width, height), so the
\* new PIL width is int(height) and the new PIL height is int(width).
ResizedSize(ratio, img) ==
    <<IntSqrt(HeightSq(ratio, img)), IntSqrt(WidthSq(ratio, img))>>

\* <<>> stands for None.
resize_width_w_constant_aspect(ratio, img) ==
    IF KeepsPoster(ratio, img)
    THEN <<[id |-> img.id, size |-> ResizedSize(ratio, img)]>>
    ELSE <<>>

(***************************************************************************)
(* collage.py: normalize_posters.                                          *)
(***************************************************************************)
MaxTimeOf(tp) == Max({tp[i].time : i \in 1..Len(tp)})

MaxAreaOf(tp) == Max({Area(tp[i].size) : i \in 1..Len(tp)})

\* ratio = area_norm_ratio * time_norm_ratio
Ratio(tp, i) ==
    Frac(MaxAreaOf(tp) * tp[i].time, Area(tp[i].size) * MaxTimeOf(tp))

RECURSIVE NormalizeFrom(_, _)
NormalizeFrom(tp, i) ==
    IF i > Len(tp) THEN <<>>
    ELSE resize_width_w_constant_aspect(Ratio(tp, i), tp[i])
         \o NormalizeFrom(tp, i + 1)

\* max() of an empty sequence raises ValueError (line 107); time / max_time
\* raises ZeroDivisionError when every time is 0 (line 113).
normalize_posters(tp) ==
    IF tp = <<>> THEN [err |-> "ValueError", posters |-> <<>>]
    ELSE IF MaxTimeOf(tp) = 0 THEN [err |-> "ZeroDivisionError", posters |-> <<>>]
    ELSE [err |-> "none", posters |-> NormalizeFrom(tp, 1)]

(***************************************************************************)
(* collage.py: arrange_images.                                             *)
(***************************************************************************)
Background == 255

\* The pixel at (row, col) of the poster `id` after resizing.
PosterPixel(id, row, col) == (50 * id + 10 * row + col) % 256

\* sorted(..., key=area, reverse=True): Python's sort is stable, also with
\* reverse=True, so posters of equal area keep their order.
RECURSIVE InsertByArea(_, _)
InsertByArea(img, s) ==
    IF s = <<>> THEN <<img>>
    ELSE IF Area(Head(s).size) >= Area(img.size)
         THEN <<Head(s)>> \o InsertByArea(img, Tail(s))
         ELSE <<img>> \o s

RECURSIVE SortFrom(_, _, _)
SortFrom(posters, i, acc) ==
    IF i > Len(posters) THEN acc
    ELSE SortFrom(posters, i + 1, InsertByArea(posters[i], acc))

SortedByArea(posters) == SortFrom(posters, 1, <<>>)

\* The cells of the slice [y : y + dy, x : x + dx], as <<row, col>>.
Slice(x, y, dx, dy) == (y .. (y + dy - 1)) \X (x .. (x + dx - 1))

SliceOf(pos, size) == Slice(pos[1], pos[2], size[1], size[2])

\* rpack.pack(sizes): one position per rectangle, in the order given, no two
\* rectangles overlapping.  Each rectangle goes to a corner made by the
\* origin and the right and bottom edges of the rectangles placed before it.
RECURSIVE PackFrom(_, _)
PackFrom(szs, placed) ==
    IF Len(placed) = Len(szs) THEN {placed}
    ELSE LET k == Len(placed) + 1
             xs == {0} \cup {placed[j][1] + szs[j][1] : j \in 1..Len(placed)}
             ys == {0} \cup {placed[j][2] + szs[j][2] : j \in 1..Len(placed)}
             free == {p \in xs \X ys :
                        \A j \in 1..Len(placed) :
                            SliceOf(p, szs[k]) \cap SliceOf(placed[j], szs[j]) = {}}
         IN  UNION {PackFrom(szs, Append(placed, p)) : p \in free}

Pack(szs) == PackFrom(szs, <<>>)

\* Mutant of CanvasCols: the canvas without the extra column.
CanvasColsTight(pos, szs) == Max({pos[i][1] + szs[i][1] : i \in 1..Len(szs)})

\* max_width + 1 and max_height + 1 (lines 172-174).
CanvasCols(pos, szs) == Max({pos[i][1] + szs[i][1] : i \in 1..Len(szs)}) + 1

CanvasRows(pos, szs) == Max({pos[i][2] + szs[i][2] : i \in 1..Len(szs)}) + 1

Cells(rows, cols) == (0 .. (rows - 1)) \X (0 .. (cols - 1))

\* The loop of lines 178-181 on the canvas: a later poster overwrites an
\* earlier one where they overlap.
RECURSIVE PlaceFrom(_, _, _, _)
PlaceFrom(px, posters, pos, k) ==
    IF k > Len(posters) THEN px
    ELSE LET img == posters[k]
             x == pos[k][1]
             y == pos[k][2]
             cov == Slice(x, y, img.size[1], img.size[2]) \cap DOMAIN px
         IN  PlaceFrom([c \in DOMAIN px |->
                           IF c \in cov
                           THEN PosterPixel(img.id, c[1] - y, c[2] - x)
                           ELSE px[c]],
                       posters, pos, k + 1)

\* Mutant of MaskFrom: deadspace[x : x + dx, y : y + dy] = False.
RECURSIVE MaskFromTransposed(_, _, _, _)
MaskFromTransposed(mask, posters, pos, k) ==
    IF k > Len(posters) THEN mask
    ELSE MaskFromTransposed(
             mask \ Slice(pos[k][2], pos[k][1], posters[k].size[2], posters[k].size[1]),
             posters, pos, k + 1)

\* The same loop on the mask, then np.where(deadspace).
RECURSIVE MaskFrom(_, _, _, _)
MaskFrom(mask, posters, pos, k) ==
    IF k > Len(posters) THEN mask
    ELSE MaskFrom(mask \ SliceOf(pos[k], posters[k].size), posters, pos, k + 1)

\* ImageFilter.GaussianBlur(radius): PIL runs it as box blurs, a horizontal
\* pass and then a vertical pass, the window clamped to the edge pixels.
\* One box blur of window 2 * radius + 1 stands for it.
Clamp(v, hi) == IF v < 0 THEN 0 ELSE IF v > hi THEN hi ELSE v

\* The sum of px over the window -radius .. radius around (row, col), along
\* the row (horizontal = TRUE) or along the column.
RECURSIVE WindowSum(_, _, _, _, _, _, _, _)
WindowSum(px, rows, cols, row, col, d, radius, horizontal) ==
    IF d > radius THEN 0
    ELSE (IF horizontal
          THEN px[<<row, Clamp(col + d, cols - 1)>>]
          ELSE px[<<Clamp(row + d, rows - 1), col>>])
         + WindowSum(px, rows, cols, row, col, d + 1, radius, horizontal)

BoxBlur(px, rows, cols, radius, horizontal) ==
    [c \in Cells(rows, cols) |->
        WindowSum(px, rows, cols, c[1], c[2], -radius, radius, horizontal)
            \div (2 * radius + 1)]

GaussianBlur(px, rows, cols, radius) ==
    LET h == BoxBlur(px, rows, cols, radius, TRUE)
    IN  IF h = h THEN BoxBlur(h, rows, cols, radius, FALSE) ELSE h

\* Mutant of Overwrite: collage = np.array(blurred).
OverwriteAll(px, blurred, mask) == [c \in DOMAIN px |-> blurred[c]]

\* collage[deadspace] = np.array(blurred)[deadspace]
Overwrite(px, blurred, mask) ==
    [c \in DOMAIN px |-> IF c \in mask THEN blurred[c] ELSE px[c]]

NoCollage == [rows |-> 0, cols |-> 0, px |-> <<>>]

(***************************************************************************)
(* collage.py: draw, one action per stage.                                 *)
(*   pc: "draw" -> "read" -> "normalized" (-> "diffusing") -> "done"       *)
(*       or "failed" with the exception in err.                            *)
(***************************************************************************)
ReadTimePosterData ==
    /\ pc = "draw"
    /\ time_posters' = read_time_poster_data(user_animes, anime_cache, img_cache)
    /\ pc' = "read"
    /\ UNCHANGED <<user_animes, normalized_posters, sizes, positions, collage,
                   deadspace, blur_factor, blur_radius, iter, err>>
    /\ UNCHANGED <<cacheVars, fetchVars>>

NormalizePosters ==
    /\ pc = "read"
    /\ LET res == normalize_posters(time_posters)
       IN  /\ normalized_posters' = res.posters
           /\ err' = res.err
           /\ pc' = IF res.err = "none" THEN "normalized" ELSE "failed"
    /\ UNCHANGED <<user_animes, time_posters, sizes, positions, collage,
                   deadspace, blur_factor, blur_radius, iter>>
    /\ UNCHANGED <<cacheVars, fetchVars>>

\* "for _ in range(blur_factor)" after n iterations: once the loop is over
\* arrange_images returns the collage and draw saves it.
LoopExit(n, factor) == IF n < factor THEN "diffusing" ELSE "done"

\* Lines 166-184: sort, pack, allocate, place, mask.  With no poster,
\* max() of an empty sequence raises ValueError at line 172.
ArrangeImages ==
    /\ pc = "normalized"
    /\ LET posters == SortedByArea(normalized_posters)
           szs == [i \in 1..Len(posters) |-> posters[i].size]
       IN  IF posters = <<>>
           THEN /\ sizes' = <<>>
                /\ positions' = <<>>
                /\ err' = "ValueError"
                /\ pc' = "failed"
                /\ UNCHANGED <<collage, deadspace, iter>>
           ELSE \E pos \in Pack(szs) :
                  LET rows == CanvasRows(pos, szs)
                      cols == CanvasCols(pos, szs)
                      blank == [c \in Cells(rows, cols) |-> Background]
                  IN  /\ sizes' = szs
                      /\ positions' = pos
                      /\ collage' = [rows |-> rows, cols |-> cols,
                                     px |-> PlaceFrom(blank, posters, pos, 1)]
                      /\ deadspace' = MaskFrom(Cells(rows, cols), posters, pos, 1)
                      /\ iter' = 0
                      /\ pc' = LoopExit(0, blur_factor)
                      /\ UNCHANGED err
    /\ UNCHANGED <<user_animes, time_posters, normalized_posters, blur_factor,
                   blur_radius>>
    /\ UNCHANGED <<cacheVars, fetchVars>>

\* One iteration of the loop of lines 188-190.
DiffuseStep ==
    /\ pc = "diffusing"
    /\ iter < blur_factor
    /\ LET blurred == GaussianBlur(collage.px, collage.rows, collage.cols, blur_radius)
       IN  collage' = [collage EXCEPT !.px = Overwrite(collage.px, blurred, deadspace)]
    /\ iter' = iter + 1
    /\ pc' = LoopExit(iter + 1, blur_factor)
    /\ UNCHANGED <<user_animes, time_posters, normalized_posters, sizes, positions,
                   deadspace, blur_factor, blur_radius, err>>
    /\ UNCHANGED <<cacheVars, fetchVars>>

(***************************************************************************)
(* url_utils.py and ScriptTaste.py: main up to the call of draw.           *)
(*   fpc: "fetch_user" -> "images" (<-> "img_write")                       *)
(*        -> "metadata" (-> "meta_open" -> "meta_dump" ->) -> "draw"       *)
(*   or an end of the run: "exit400", "exit429" (main's exit(0)),          *)
(*   "http_error" (urllib's error leaves main), "crashed" (raise err).     *)
(* A cache file is "partial" between being opened for writing and the end  *)
(* of the write.                                                           *)
(***************************************************************************)
\* os.path.exists(fpath) and os.path.isfile(fpath)
CacheExists(entry) == entry # "absent"

\* Mutant of MustQuery: the cache is never consulted.
MustQueryAlways(f, entry) == TRUE

\* "force or not cache_exists"
MustQuery(f, entry) == f \/ ~CacheExists(entry)

NoQuery == [kind |-> "none", id |-> 0, cached |-> FALSE]

Query(kind, id, entry) == [kind |-> kind, id |-> id, cached |-> CacheExists(entry)]

\* fetch_user_animes: the list is pulled and cached, or read from the cache.
FetchUserAnimes ==
    /\ fpc = "fetch_user"
    /\ user_cache' = TRUE
    /\ fpc' = "images"
    /\ idx' = 1
    /\ UNCHANGED <<force, last_query, retry>>
    /\ UNCHANGED <<cacheVars, drawVars>>

\* jikan.user raises: main exits on a 400 and re-raises anything else.
FetchUserAnimesError ==
    /\ fpc = "fetch_user"
    /\ force \/ ~user_cache
    /\ \E code \in {"400", "429"} :
          fpc' = IF code = "400" THEN "exit400" ELSE "crashed"
    /\ UNCHANGED <<force, user_cache, idx, last_query, retry>>
    /\ UNCHANGED <<cacheVars, drawVars>>

\* fetch_images, an image that is cached and not forced.
FetchImageSkip ==
    /\ fpc = "images"
    /\ idx <= Len(user_animes)
    /\ ~MustQuery(force, img_cache[user_animes[idx].mal_id])
    /\ idx' = idx + 1
    /\ UNCHANGED <<force, user_cache, fpc, last_query, retry>>
    /\ UNCHANGED <<cacheVars, drawVars>>

\* urllib.request.urlretrieve: the request is answered and the target file
\* is opened for writing.
FetchImageRequest ==
    /\ fpc = "images"
    /\ idx <= Len(user_animes)
    /\ LET id == user_animes[idx].mal_id
       IN  /\ MustQuery(force, img_cache[id])
           /\ last_query' = Query("image", id, img_cache[id])
           /\ img_cache' = [img_cache EXCEPT ![id] = "partial"]
    /\ fpc' = "img_write"
    /\ UNCHANGED <<force, user_cache, idx, retry, anime_cache>>
    /\ UNCHANGED drawVars

\* urlretrieve writes the blocks and closes the file; time.sleep(rate_limit).
FetchImageWrite ==
    /\ fpc = "img_write"
    /\ img_cache' = [img_cache EXCEPT ![user_animes[idx].mal_id] = "complete"]
    /\ idx' = idx + 1
    /\ fpc' = "images"
    /\ UNCHANGED <<force, user_cache, last_query, retry, anime_cache>>
    /\ UNCHANGED drawVars

\* The request is refused (429): urlopen raises urllib's HTTPError before
\* the target file is opened; main catches only jikanpy's APIException.
FetchImageRateLimited ==
    /\ fpc = "images"
    /\ idx <= Len(user_animes)
    /\ LET id == user_animes[idx].mal_id
       IN  /\ MustQuery(force, img_cache[id])
           /\ last_query' = Query("image", id, img_cache[id])
    /\ fpc' = "http_error"
    /\ UNCHANGED <<force, user_cache, idx, retry>>
    /\ UNCHANGED <<cacheVars, drawVars>>

FetchImagesDone ==
    /\ fpc = "images"
    /\ idx > Len(user_animes)
    /\ fpc' = "metadata"
    /\ idx' = 1
    /\ UNCHANGED <<force, user_cache, last_query, retry>>
    /\ UNCHANGED <<cacheVars, drawVars>>

\* fetch_anime_metadata, a record that is cached and not forced.
FetchMetadataSkip ==
    /\ fpc = "metadata"
    /\ idx <= Len(user_animes)
    /\ ~MustQuery(force, anime_cache[user_animes[idx].mal_id])
    /\ idx' = idx + 1
    /\ UNCHANGED <<force, user_cache, fpc, last_query, retry>>
    /\ UNCHANGED <<cacheVars, drawVars>>

\* jikan.anime(mal_id) answers.
FetchMetadataRequest ==
    /\ fpc = "metadata"
    /\ idx <= Len(user_animes)
    /\ LET id == user_animes[idx].mal_id
       IN  /\ MustQuery(force, anime_cache[id])
           /\ last_query' = Query("metadata", id, anime_cache[id])
    /\ fpc' = "meta_open"
    /\ UNCHANGED <<force, user_cache, idx, retry>>
    /\ UNCHANGED <<cacheVars, drawVars>>

\* open(metadata_fpath, "w")
FetchMetadataOpen ==
    /\ fpc = "meta_open"
    /\ anime_cache' = [anime_cache EXCEPT ![user_animes[idx].mal_id] = "partial"]
    /\ fpc' = "meta_dump"
    /\ UNCHANGED <<force, user_cache, idx, last_query, retry, img_cache>>
    /\ UNCHANGED drawVars

\* json.dump, the file is closed; time.sleep(rate_limit).
FetchMetadataDump ==
    /\ fpc = "meta_dump"
    /\ anime_cache' = [anime_cache EXCEPT ![user_animes[idx].mal_id] = "complete"]
    /\ idx' = idx + 1
    /\ fpc' = "metadata"
    /\ UNCHANGED <<force, user_cache, last_query, retry, img_cache>>
    /\ UNCHANGED drawVars

\* jikan.anime raises APIException "429 ...": main prints and exit(0).
FetchMetadataRateLimited ==
    /\ fpc = "metadata"
    /\ idx <= Len(user_animes)
    /\ LET id == user_animes[idx].mal_id
       IN  /\ MustQuery(force, anime_cache[id])
           /\ last_query' = Query("metadata", id, anime_cache[id])
    /\ fpc' = "exit429"
    /\ UNCHANGED <<force, user_cache, idx, retry>>
    /\ UNCHANGED <<cacheVars, drawVars>>

\* jikan.anime raises any other APIException: main re-raises it.
FetchMetadataError ==
    /\ fpc = "metadata"
    /\ idx <= Len(user_animes)
    /\ LET id == user_animes[idx].mal_id
       IN  /\ MustQuery(force, anime_cache[id])
           /\ last_query' = Query("metadata", id, anime_cache[id])
    /\ fpc' = "crashed"
    /\ UNCHANGED <<force, user_cache, idx, retry>>
    /\ UNCHANGED <<cacheVars, drawVars>>

\* Both loops are over: main calls src.collage.draw.
FetchMetadataDone ==
    /\ fpc = "metadata"
    /\ idx > Len(user_animes)
    /\ fpc' = "draw"
    /\ UNCHANGED <<force, user_cache, idx, last_query, retry>>
    /\ UNCHANGED <<cacheVars, drawVars>>

RunEnded == fpc \in {"exit400", "exit429", "http_error", "crashed", "draw"}

RateLimited == fpc \in {"exit429", "http_error"}

\* The user starts the program again, with or without -f.
Rerun ==
    /\ RunEnded
    /\ \E f \in BOOLEAN : force' = f
    /\ retry' = RateLimited
    /\ last_query' = NoQuery
    /\ fpc' = "fetch_user"
    /\ idx' = 1
    /\ UNCHANGED user_cache
    /\ UNCHANGED <<cacheVars, drawVars>>

(***************************************************************************)
(* Initial states and specifications.                                      *)
(***************************************************************************)
AnimeIds == 1 .. MaxAnimes

PosterSizes == (1 .. MaxDim) \X (1 .. MaxDim)

RectSizes == (1 .. MaxRect) \X (1 .. MaxRect)

\* "Unknown", "1 min per ep", "1 hr 1 min"
Durations == {[hr |-> <<>>, min |-> <<>>],
              [hr |-> <<>>, min |-> <<1>>],
              [hr |-> <<1>>, min |-> <<1>>]}

\* Two images, weights {10, 5}, original sizes {100x100, 50x50}.
ExampleScenario == <<[time |-> 10, id |-> 1, size |-> <<100, 100>>],
                     [time |-> 5, id |-> 2, size |-> <<50, 50>>]>>

EmptyCache == [i \in AnimeIds |-> "absent"]

\* main is not running: the draw stages are looked at alone.
FetchIdle ==
    /\ force = FALSE
    /\ user_cache = TRUE
    /\ fpc = "draw"
    /\ idx = 1
    /\ last_query = NoQuery
    /\ retry = FALSE

\* draw has not been called.
DrawIdle ==
    /\ time_posters = <<>>
    /\ normalized_posters = <<>>
    /\ sizes = <<>>
    /\ positions = <<>>
    /\ collage = NoCollage
    /\ deadspace = {}
    /\ iter = 0
    /\ err = "none"

\* draw(user_animes, ...) is called on the caches a run of main left.
Init ==
    /\ \E k \in 0 .. MaxAnimes :
         \E w \in [1 .. k -> 0 .. MaxEpisodes], d \in [1 .. k -> Durations],
            s \in [1 .. k -> PosterSizes] :
            user_animes = [i \in 1 .. k |->
                              [mal_id |-> i, watched_episodes |-> w[i],
                               duration |-> d[i], size |-> s[i]]]
    /\ anime_cache \in [AnimeIds -> {"absent", "complete"}]
    /\ img_cache \in [AnimeIds -> {"absent", "complete"}]
    /\ blur_factor = MaxBlurFactor
    /\ blur_radius = MaxBlurRadius
    /\ pc = "draw"
    /\ DrawIdle
    /\ FetchIdle

Next ==
    \/ ReadTimePosterData
    \/ NormalizePosters
    \/ ArrangeImages
    \/ DiffuseStep

Spec == Init /\ [][Next]_vars

\* normalize_posters alone, on every list of posters within the bounds and
\* on the example scenario.
InitNorm ==
    /\ \/ \E k \in 0 .. MaxImgs :
            \E t \in [1 .. k -> 0 .. MaxTime], s \in [1 .. k -> PosterSizes] :
               time_posters = [i \in 1 .. k |->
                                  [time |-> t[i], id |-> i, size |-> s[i]]]
       \/ time_posters = ExampleScenario
    /\ user_animes = <<>>
    /\ anime_cache = EmptyCache
    /\ img_cache = EmptyCache
    /\ normalized_posters = <<>>
    /\ sizes = <<>>
    /\ positions = <<>>
    /\ collage = NoCollage
    /\ deadspace = {}
    /\ blur_factor = 0
    /\ blur_radius = 0
    /\ iter = 0
    /\ err = "none"
    /\ pc = "read"
    /\ FetchIdle

NextNorm == NormalizePosters

SpecNorm == InitNorm /\ [][NextNorm]_vars

\* arrange_images alone, on every list of rectangles within the bounds.
InitArr ==
    /\ \E k \in 0 .. MaxRects :
         \E s \in [1 .. k -> RectSizes] :
            normalized_posters = [i \in 1 .. k |-> [id |-> i, size |-> s[i]]]
    /\ blur_factor \in 0 .. MaxBlurFactor
    /\ blur_radius = MaxBlurRadius
    /\ user_animes = <<>>
    /\ anime_cache = EmptyCache
    /\ img_cache = EmptyCache
    /\ time_posters = <<>>
    /\ sizes = <<>>
    /\ positions = <<>>
    /\ collage = NoCollage
    /\ deadspace = {}
    /\ iter = 0
    /\ err = "none"
    /\ pc = "normalized"
    /\ FetchIdle

NextArr ==
    \/ ArrangeImages
    \/ DiffuseStep

SpecArr == InitArr /\ [][NextArr]_vars

\* main on a fresh data directory.
InitFetch ==
    /\ \E k \in 0 .. MaxAnimes :
         user_animes = [i \in 1 .. k |->
                           [mal_id |-> i, watched_episodes |-> 1,
                            duration |-> [hr |-> <<>>, min |-> <<1>>],
                            size |-> <<1, 1>>]]
    /\ anime_cache = EmptyCache
    /\ img_cache = EmptyCache
    /\ force \in BOOLEAN
    /\ user_cache = FALSE
    /\ fpc = "fetch_user"
    /\ idx = 1
    /\ last_query = NoQuery
    /\ retry = FALSE
    /\ blur_factor = 0
    /\ blur_radius = 0
    /\ pc = "idle"
    /\ DrawIdle

NextFetch ==
    \/ FetchUserAnimes
    \/ FetchUserAnimesError
    \/ FetchImageSkip
    \/ FetchImageRequest
    \/ FetchImageWrite
    \/ FetchImageRateLimited
    \/ FetchImagesDone
    \/ FetchMetadataSkip
    \/ FetchMetadataRequest
    \/ FetchMetadataOpen
    \/ FetchMetadataDump
    \/ FetchMetadataRateLimited
    \/ FetchMetadataError
    \/ FetchMetadataDone
    \/ Rerun

\* The user keeps retrying, every step of a run that can be taken is taken,
\* and a request that is tried again and again is answered in the end (the
\* rate limit is lifted after a wait).
FetchFairness ==
    /\ WF_vars(Rerun)
    /\ WF_vars(FetchUserAnimes)
    /\ WF_vars(FetchImageSkip)
    /\ WF_vars(FetchImageWrite)
    /\ WF_vars(FetchImagesDone)
    /\ WF_vars(FetchMetadataSkip)
    /\ WF_vars(FetchMetadataOpen)
    /\ WF_vars(FetchMetadataDump)
    /\ WF_vars(FetchMetadataDone)
    /\ SF_vars(FetchUserAnimes)
    /\ \A i \in AnimeIds : SF_vars(FetchImageRequest /\ idx = i)
    /\ \A i \in AnimeIds : SF_vars(FetchMetadataRequest /\ idx = i)

SpecFetch == InitFetch /\ [][NextFetch]_vars /\ FetchFairness

(***************************************************************************)
(* Properties of normalize_posters (SpecNorm).                             *)
(***************************************************************************)
\* The (time, poster) pair a normalized poster was made from.
Source(p) == CHOOSE tp \in Range(time_posters) : tp.id = p.id

\* Index of a pair in time_posters.
IndexOf(id) == CHOOSE i \in 1 .. Len(time_posters) : time_posters[i].id = id

Retained == Range(normalized_posters)

Pred(n) == IF n > 0 THEN n - 1 ELSE 0

\* An area that integer rounding of the two sides by at most one pixel can
\* turn into the area of `size` lies between AreaLo and AreaHi.
AreaLo(size) == Pred(size[1]) * Pred(size[2])

AreaHi(size) == (size[1] + 1) * (size[2] + 1)

\* a / b = wa / wb for some areas a, b within rounding of the two sizes.
AreasInRatio(sa, sb, wa, wb) ==
    /\ AreaLo(sa) * wb <= AreaHi(sb) * wa
    /\ AreaLo(sb) * wa <= AreaHi(sa) * wb

\* C1: for any two retained images with positive weights the areas of the
\* resized rectangles are in the ratio of the weights, up to the rounding
\* of the sides to integer pixels.
C1_AreaProportional ==
    pc = "normalized" =>
        \A a \in Retained, b \in Retained :
            (Source(a).time > 0 /\ Source(b).time > 0)
                => AreasInRatio(a.size, b.size, Source(a).time, Source(b).time)

\* x / y = W / H for some x within one pixel of w and y within one pixel of h.
AspectWithinOnePixel(size, orig) ==
    /\ Pred(size[1]) * orig[2] <= (size[2] + 1) * orig[1]
    /\ Pred(size[2]) * orig[1] <= (size[1] + 1) * orig[2]

\* C2: every retained rectangle has the width/height ratio of its original
\* image, up to integer rounding of at most one pixel in each dimension.
C2_AspectPreserved ==
    pc = "normalized" =>
        \A p \in Retained : AspectWithinOnePixel(p.size, Source(p).size)

C2_Witness ==
    /\ pc = "normalized"
    /\ \E p \in Retained :
          /\ Source(p).size[1] # Source(p).size[2]
          /\ p.size # Source(p).size
          /\ p.size[1] > 1
          /\ p.size[2] > 1

\* n = round(sqrt(q)) for the rational q: (2n - 1)^2 <= 4q < (2n + 1)^2.
IsRoundSqrt(n, q) ==
    /\ (n = 0 \/ (2 * n - 1) * (2 * n - 1) * q[2] <= 4 * q[1])
    /\ 4 * q[1] < (2 * n + 1) * (2 * n + 1) * q[2]

\* n = floor(sqrt(q)) for the rational q: n^2 <= q < (n + 1)^2.
IsFloorSqrt(n, q) ==
    /\ n * n * q[2] <= q[1]
    /\ q[1] < (n + 1) * (n + 1) * q[2]

\* (t * W)^2 and (t * W * W / H)^2 for the i-th pair, t = sqrt(ratio).
ScaledWidthSq(i) ==
    LET W == time_posters[i].size[1]
    IN  FracMul(Ratio(time_posters, i), <<W * W, 1>>)

ScaledBySidesSq(i) ==
    LET W == time_posters[i].size[1]
        H == time_posters[i].size[2]
    IN  FracMul(FracMul(ScaledWidthSq(i), Frac(W, H)), Frac(W, H))

SizesOf(posters) == [i \in 1 .. Len(posters) |-> posters[i].size]

AtLeastOnePixel(i) ==
    FracGeqOne(ScaledWidthSq(i)) /\ FracGeqOne(ScaledBySidesSq(i))

\* C8: an image whose resized width or height is below one pixel is left
\* out without an error, the others are returned in input order, and every
\* returned rectangle has width >= 1 and height >= 1.
C8_DropsSubPixel ==
    /\ pc = "failed" => (time_posters = <<>> \/ MaxTimeOf(time_posters) = 0)
    /\ pc = "normalized" =>
          /\ {p.id : p \in Retained}
                = {time_posters[i].id : i \in {j \in 1 .. Len(time_posters) :
                                                  AtLeastOnePixel(j)}}
          /\ \A i \in 1 .. Len(normalized_posters), j \in 1 .. Len(normalized_posters) :
                i < j => IndexOf(normalized_posters[i].id)
                            < IndexOf(normalized_posters[j].id)
          /\ \A p \in Retained : p.size[1] >= 1 /\ p.size[2] >= 1

C8_Witness ==
    /\ pc = "normalized"
    /\ Len(time_posters) = 2
    /\ Len(normalized_posters) = 1
    /\ time_posters[1].time > 0
    /\ time_posters[2].time > 0

\* C9: an input record with a non-positive weight makes normalize_posters
\* fail with an invalid-input error; it never returns a result for it.
C9_FailsFast ==
    (pc # "read" /\ \E i \in 1 .. Len(time_posters) : time_posters[i].time <= 0)
        => (pc = "failed" /\ err # "none")

(***************************************************************************)
(* Properties of arrange_images (SpecArr).                                 *)
(***************************************************************************)
Composited == pc \in {"diffusing", "done"}

\* The posters in the order arrange_images places them.
Placed == SortedByArea(normalized_posters)

\* The k-th placed rectangle covers the cell (row, col).
Covers(k, row, col) ==
    /\ positions[k][1] <= col
    /\ col < positions[k][1] + sizes[k][1]
    /\ positions[k][2] <= row
    /\ row < positions[k][2] + sizes[k][2]

CoveredCells == {c \in DOMAIN collage.px :
                    \E k \in 1 .. Len(sizes) : Covers(k, c[1], c[2])}

\* Every covered cell holds the pixel of the rectangle covering it.
C4_CoveredIntact ==
    Composited =>
        \A c \in DOMAIN collage.px, k \in 1 .. Len(sizes) :
            Covers(k, c[1], c[2])
                => collage.px[c] = PosterPixel(Placed[k].id,
                                               c[1] - positions[k][2],
                                               c[2] - positions[k][1])

\* A step leaves the mask as it is and changes no cell outside it.
C4_OnlyDeadspaceWritten ==
    Composited =>
        /\ deadspace' = deadspace
        /\ \A c \in DOMAIN collage.px :
              c \notin deadspace => collage'.px[c] = collage.px[c]

\* C4: after every diffusion iteration every cell a placed rectangle covers
\* still holds that rectangle's source pixel; only cells of the deadspace
\* mask are overwritten, and the mask is computed once and never updated.
C4_DiffusionNonInvasive ==
    [](C4_CoveredIntact) /\ [][C4_OnlyDeadspaceWritten]_vars

C4_Witness ==
    /\ pc = "done"
    /\ iter >= 2
    /\ Len(sizes) = 2
    /\ \E c \in deadspace : collage.px[c] # Background
    /\ \E c \in CoveredCells : collage.px[c] # Background

\* C5: after compositing a cell is in the deadspace mask if and only if no
\* placed rectangle (x, y, w, h) has x <= col < x + w and y <= row < y + h.
C5_MaskCorrect ==
    Composited =>
        /\ deadspace \subseteq Cells(collage.rows, collage.cols)
        /\ \A c \in Cells(collage.rows, collage.cols) :
              c \in deadspace <=> ~(\E k \in 1 .. Len(sizes) : Covers(k, c[1], c[2]))

\* Two rectangles, one of them not square, and a deadspace cell that is not
\* in the extra row or column.
C5_Witness ==
    /\ Composited
    /\ Len(sizes) = 2
    /\ \E k \in 1 .. 2 : sizes[k][1] # sizes[k][2]
    /\ \E c \in deadspace : c[1] < collage.rows - 1 /\ c[2] < collage.cols - 1

\* C6: the canvas is exactly 1 + max(x + w) wide and 1 + max(y + h) high,
\* and every placed rectangle lies inside it.
C6_TightCanvas ==
    Composited =>
        /\ Len(sizes) >= 1
        /\ \E k \in 1 .. Len(sizes) : collage.cols = 1 + positions[k][1] + sizes[k][1]
        /\ \E k \in 1 .. Len(sizes) : collage.rows = 1 + positions[k][2] + sizes[k][2]
        /\ \A k \in 1 .. Len(sizes) :
              /\ 0 <= positions[k][1]
              /\ 0 <= positions[k][2]
              /\ 1 + positions[k][1] + sizes[k][1] <= collage.cols
              /\ 1 + positions[k][2] + sizes[k][2] <= collage.rows
        /\ DOMAIN collage.px = Cells(collage.rows, collage.cols)

\* Two rectangles; the second one sets the width, the first one the height.
C6_Witness ==
    /\ Composited
    /\ Len(sizes) = 2
    /\ positions[2][1] + sizes[2][1] > positions[1][1] + sizes[1][1]
    /\ positions[1][2] + sizes[1][2] > positions[2][2] + sizes[2][2]

(***************************************************************************)
(* Property of draw (Spec).                                                *)
(***************************************************************************)
\* No poster reaches the packer: none was read, or all were dropped.
NothingToPack ==
    \/ time_posters = <<>>
    \/ /\ normalize_posters(time_posters).err = "none"
       /\ normalize_posters(time_posters).posters = <<>>

\* C7: when no poster was read, or normalization dropped every poster,
\* draw ends with an empty canvas and not with an exception.
C7_EmptyCanvas ==
    (pc \notin {"draw", "read"} /\ NothingToPack)
        => (err = "none" /\ pc \in {"normalized", "diffusing", "done"})

(***************************************************************************)
(* Properties of main's cache (SpecFetch).                                 *)
(***************************************************************************)
Listed == {user_animes[i].mal_id : i \in 1 .. Len(user_animes)}

IdsBefore(n) == {user_animes[i].mal_id : i \in 1 .. (n - 1)}

AllCached ==
    \A id \in Listed : img_cache[id] = "complete" /\ anime_cache[id] = "complete"

\* In a run that a 429 ended: what came before the failing item is cached,
\* and no cache file is half written.
CacheAfterRateLimit ==
    /\ fpc = "http_error" => \A id \in IdsBefore(idx) : img_cache[id] = "complete"
    /\ fpc = "exit429" =>
          /\ \A id \in Listed : img_cache[id] = "complete"
          /\ \A id \in IdsBefore(idx) : anime_cache[id] = "complete"
    /\ RateLimited =>
          \A id \in AnimeIds : img_cache[id] # "partial" /\ anime_cache[id] # "partial"

\* A run that follows a rate-limited run has queried only what was not cached.
RetryQueriesUncached ==
    (retry /\ last_query.kind # "none") => ~last_query.cached

====
